---- MODULE Spec2Model ----
(***************************************************************************)
(* Construction-time validation of the UML design models of base.py.       *)
(*                                                                         *)
(* Every model class is a pydantic BaseModel: constructing it runs the     *)
(* class's `model_validator(mode='after')`, when it has one, over the      *)
(* already populated fields, and the construction either returns the model *)
(* or raises ValueError.  Each construction is one action here: the        *)
(* candidate content is drawn in the initial state, the action stores the  *)
(* outcome of the construction.                                            *)
(***************************************************************************)
EXTENDS Integers, Sequences, FiniteSets, TLC

VARIABLES
    class_diagram,   \* candidate content of a class diagram
    class_result,    \* outcome of constructing it
    object_diagram,  \* candidate content of an object diagram, its class diagram included
    object_result,   \* outcome of constructing it
    crc_model,       \* candidate content of a CRC card set
    crc_result,      \* outcome of constructing it
    usecase_diagram, \* candidate content of a use-case diagram
    activity_diagram,\* candidate content of an activity diagram
    diagram_result,  \* outcome of constructing one of the two
    activity_collection, \* candidate content of an activity model collection
    collection_result,   \* outcome of constructing it
    diagram,         \* the ActivityDiagram given to generate_plantuml_activity
    lines,           \* the list `lines` of the rendering
    processed_nodes, \* the set `processed_nodes` of the rendering
    stack,           \* the active calls of the recursive walk, innermost last
    render_pc,       \* "ready", "walking", "returned" or "KeyError"
    visits           \* history: the nodes added to processed_nodes, in order, each
                     \* with the function that added it, the flow followed, the
                     \* lines appended before its own, the depth of the call and
                     \* the function called to walk on from it

vars == <<class_diagram, class_result, object_diagram, object_result,
          crc_model, crc_result, usecase_diagram, activity_diagram, diagram_result,
          activity_collection, collection_result,
          diagram, lines, processed_nodes, stack, render_pc, visits>>

(***************************************************************************)
(* Bounds of the explored inputs.                                          *)
(***************************************************************************)
MaxClasses == 3
MaxGens == 2
MaxAssocs == 2
MaxRefClasses == 2
MaxRefAssocs == 1
MaxObjects == 2
MaxLinks == 1
MaxCards == 2
MaxActors == 2
MaxUseCaseList == 2
MaxRelationships == 1
MaxNodes == 2
MaxFlows == 1
MaxUseCaseDiagrams == 2
MaxActivityDiagrams == 1
MaxUseCaseLinks == 1

\* Class names that candidate content may use.
ClassNames == {"A", "B", "C"}

SeqsUpTo(S, n) == UNION {[1..k -> S] : k \in 0..n}

Range(s) == {s[i] : i \in DOMAIN s}

\* the value of a variable that a specification does not use
Unused == "unused"

(***************************************************************************)
(* Outcomes of a construction.                                             *)
(***************************************************************************)
Pending == [status |-> "pending", error |-> "none", name |-> "none", via |-> "none"]

\* the outcome of a construction that a specification does not attempt
Idle == [status |-> "unused", error |-> "none", name |-> "none", via |-> "none"]

\* a loop that ended without raising
NoError == [status |-> "no_error", error |-> "none", name |-> "none", via |-> "none"]

Accepted(cls) == [status |-> "accepted", error |-> "none", name |-> "none", via |-> cls]

\* raise ValueError(...): the kind of message and the name it quotes
ValueError(cls, kind, nm) == [status |-> "rejected", error |-> kind, name |-> nm, via |-> cls]

(***************************************************************************)
(* Class diagram (base.py, "Class Diagram").                               *)
(***************************************************************************)
UMLClass == [name : ClassNames]

Generalization == [subclass : ClassNames, superclass : ClassNames]

\* the associations that candidate content may declare
Association ==
    {[class1_name |-> "A", class2_name |-> "B"],
     [class1_name |-> "C", class2_name |-> "A"]}

ClassDiagramContent ==
    [classes : SeqsUpTo(UMLClass, MaxClasses),
     associations : SeqsUpTo(Association, MaxAssocs),
     generalizations : SeqsUpTo(Generalization, MaxGens)]

\* {cls.name for cls in self.classes}
class_names(d) == {d.classes[i].name : i \in DOMAIN d.classes}

\* indices of the associations / generalizations with an endpoint outside class_names
BadAssocs(d) ==
    {i \in DOMAIN d.associations :
        \/ d.associations[i].class1_name \notin class_names(d)
        \/ d.associations[i].class2_name \notin class_names(d)}

BadGens(d) ==
    {i \in DOMAIN d.generalizations :
        \/ d.generalizations[i].subclass \notin class_names(d)
        \/ d.generalizations[i].superclass \notin class_names(d)}

Min(S) == CHOOSE x \in S : \A y \in S : x <= y

Max(S) == CHOOSE x \in S : \A y \in S : x >= y

inheritance_graph_first_wins(d) ==
    LET gens == d.generalizations
        keys == {gens[i].subclass : i \in DOMAIN gens}
    IN  [k \in keys |->
            gens[Min({i \in DOMAIN gens : gens[i].subclass = k})].superclass]

\* inheritance_graph = {gen.subclass: gen.superclass for gen in self.generalizations}
\* a dict: a later generalization of the same subclass replaces the earlier value
inheritance_graph(d) ==
    LET gens == d.generalizations
        keys == {gens[i].subclass : i \in DOMAIN gens}
    IN  [k \in keys |->
            gens[Max({i \in DOMAIN gens : gens[i].subclass = k})].superclass]

\* the keys of inheritance_graph in iteration order: a dict iterates in the order
\* in which its keys were first inserted
graph_keys(d) ==
    LET gens == d.generalizations
        firsts == {i \in DOMAIN gens : \A j \in 1..(i-1) : gens[j].subclass # gens[i].subclass}
        nth[n \in 0..Cardinality(firsts)] ==
            IF n = 0 THEN <<>>
            ELSE LET rest == {i \in firsts : \A m \in 1..Len(nth[n-1]) : nth[n-1][m] # gens[i].subclass}
                 IN  Append(nth[n-1], gens[Min(rest)].subclass)
    IN  nth[Cardinality(firsts)]

\* walk with the membership test made after path.add(curr_node)
walk_add_first(graph, curr_node, path) ==
    IF curr_node \notin DOMAIN graph THEN "none" ELSE graph[curr_node]

\* the while loop of one start_node: the class at which the walk re-enters its
\* path, or "none" when the walk leaves the graph
RECURSIVE walk(_, _, _)
walk(graph, curr_node, path) ==
    IF curr_node \notin DOMAIN graph THEN "none"
    ELSE LET next == graph[curr_node]
         IN  IF next \in path THEN next
             ELSE walk(graph, next, path \cup {next})

\* the for loop over start_node: the class named by the first walk that finds a cycle
RECURSIVE first_cycle(_, _, _)
first_cycle(graph, keys, i) ==
    IF i > Len(keys) THEN "none"
    ELSE LET hit == walk(graph, keys[i], {keys[i]})
         IN  IF hit # "none" THEN hit ELSE first_cycle(graph, keys, i + 1)

\* ClassDiagram.validate_diagram_integrity, the validator of the class of line 420
validate_diagram_integrity(d) ==
    IF Cardinality(class_names(d)) # Len(d.classes)
    THEN ValueError("ValidatedClassDiagram", "DuplicateClassNames", "none")
    ELSE IF BadAssocs(d) # {}
    THEN LET a == d.associations[Min(BadAssocs(d))]
         IN  IF a.class1_name \notin class_names(d)
             THEN ValueError("ValidatedClassDiagram", "AssociationClassNotFound", a.class1_name)
             ELSE ValueError("ValidatedClassDiagram", "AssociationClassNotFound", a.class2_name)
    ELSE IF BadGens(d) # {}
    THEN LET g == d.generalizations[Min(BadGens(d))]
         IN  IF g.subclass \notin class_names(d)
             THEN ValueError("ValidatedClassDiagram", "SubclassNotFound", g.subclass)
             ELSE ValueError("ValidatedClassDiagram", "SuperclassNotFound", g.superclass)
    ELSE LET hit == first_cycle(inheritance_graph(d), graph_keys(d), 1)
         IN  IF hit # "none"
             THEN ValueError("ValidatedClassDiagram", "CircularInheritance", hit)
             ELSE Accepted("ValidatedClassDiagram")

\* the class that the name ClassDiagram denotes once the module is loaded: the
\* redefinition of line 478 keeps classes and associations, declares no
\* generalizations field and no validator
ClassDiagram(d) == Accepted("ClassDiagram")

(***************************************************************************)
(* Object diagram (base.py, "Object Diagram").  The classes named UMLClass, *)
(* Attribute, Association and ClassDiagram that it refers to are the        *)
(* redefinitions of lines 475-478.                                          *)
(***************************************************************************)
InstanceNames == {"o1", "o2"}

RefClassNames == {"A", "B"}

\* UMLClass of line 475: name and attributes; the attributes are Attribute
\* models of line 376, of which the name is read
UMLClassRef ==
    {[name |-> "A", attributes |-> <<>>],
     [name |-> "A", attributes |-> <<[name |-> "x"]>>],
     [name |-> "B", attributes |-> <<>>]}

\* Association of line 477
AssociationRef ==
    {[class1_name |-> "A", class2_name |-> "B"],
     [class1_name |-> "B", class2_name |-> "A"]}

\* ClassDiagram of line 478: any content of the right shape is a ClassDiagram
ClassDiagramRef ==
    [classes : SeqsUpTo(UMLClassRef, MaxRefClasses),
     associations : SeqsUpTo(AssociationRef, MaxRefAssocs)]

DiagramObject ==
    [instance_name : InstanceNames,
     class_name : RefClassNames,
     attribute_values : {<<>>, <<[name |-> "x"]>>}]

Link ==
    {[object1_instance_name |-> "o1", object2_instance_name |-> "o2"],
     [object1_instance_name |-> "o2", object2_instance_name |-> "o1"]}

ObjectDiagramContent ==
    [class_diagram : ClassDiagramRef,
     objects : SeqsUpTo(DiagramObject, MaxObjects),
     links : SeqsUpTo(Link, MaxLinks)]

\* the order of str values under <, which sorted() uses
NameOrder == <<"A", "B", "C">>

Rank(n) == CHOOSE i \in DOMAIN NameOrder : NameOrder[i] = n

\* the pair kept in the order given
unsorted_pair(a, b) == <<a, b>>

\* tuple(sorted((a, b)))
sorted_pair(a, b) == IF Rank(b) < Rank(a) THEN <<b, a>> ELSE <<a, b>>

\* class_map = {cls.name: cls for cls in class_diagram.classes}
\* a dict: of two classes with one name the later one is kept
class_map(cd) ==
    [n \in {cd.classes[i].name : i \in DOMAIN cd.classes} |->
        cd.classes[Max({i \in DOMAIN cd.classes : cd.classes[i].name = n})]]

\* valid_associations
valid_associations(cd) ==
    {sorted_pair(cd.associations[i].class1_name, cd.associations[i].class2_name) :
        i \in DOMAIN cd.associations}

\* valid_attribute_names = {attr.name for attr in uml_class.attributes}
valid_attribute_names(uml_class) ==
    {uml_class.attributes[i].name : i \in DOMAIN uml_class.attributes}

\* object_map once the loop over the objects has ended without an error:
\* instance names are then unique
object_map(od) ==
    [n \in {od.objects[i].instance_name : i \in DOMAIN od.objects} |->
        od.objects[Max({i \in DOMAIN od.objects : od.objects[i].instance_name = n})]]

RECURSIVE validate_objects(_, _)

\* Step 2 with an object of an unknown class passed over instead of reported
validate_objects_skip_unknown(od, i) ==
    IF i > Len(od.objects) THEN NoError
    ELSE LET obj == od.objects[i]
             cm == class_map(od.class_diagram)
         IN  IF \E j \in 1..(i-1) : od.objects[j].instance_name = obj.instance_name
             THEN ValueError("ObjectDiagram", "DuplicateInstanceName", obj.instance_name)
             ELSE IF obj.class_name \notin DOMAIN cm
             THEN validate_objects(od, i + 1)
             ELSE LET valid == valid_attribute_names(cm[obj.class_name])
                      bad == {k \in DOMAIN obj.attribute_values :
                                 obj.attribute_values[k].name \notin valid}
                  IN  IF bad # {}
                      THEN ValueError("ObjectDiagram", "InvalidAttribute",
                                      obj.attribute_values[Min(bad)].name)
                      ELSE validate_objects(od, i + 1)

\* Step 2 with the attribute check made only for a class that declares attributes
validate_objects_guarded_attributes(od, i) ==
    IF i > Len(od.objects) THEN NoError
    ELSE LET obj == od.objects[i]
             cm == class_map(od.class_diagram)
         IN  IF \E j \in 1..(i-1) : od.objects[j].instance_name = obj.instance_name
             THEN ValueError("ObjectDiagram", "DuplicateInstanceName", obj.instance_name)
             ELSE IF obj.class_name \notin DOMAIN cm
             THEN ValueError("ObjectDiagram", "UnknownClass", obj.class_name)
             ELSE LET valid == valid_attribute_names(cm[obj.class_name])
                      bad == {k \in DOMAIN obj.attribute_values :
                                 obj.attribute_values[k].name \notin valid}
                  IN  IF valid # {} /\ bad # {}
                      THEN ValueError("ObjectDiagram", "InvalidAttribute",
                                      obj.attribute_values[Min(bad)].name)
                      ELSE validate_objects(od, i + 1)

\* Step 2, the loop over self.objects from index i on: the first error, or NoError
validate_objects(od, i) ==
    IF i > Len(od.objects) THEN NoError
    ELSE LET obj == od.objects[i]
             cm == class_map(od.class_diagram)
         IN  IF \E j \in 1..(i-1) : od.objects[j].instance_name = obj.instance_name
             THEN ValueError("ObjectDiagram", "DuplicateInstanceName", obj.instance_name)
             ELSE IF obj.class_name \notin DOMAIN cm
             THEN ValueError("ObjectDiagram", "UnknownClass", obj.class_name)
             ELSE LET valid == valid_attribute_names(cm[obj.class_name])
                      bad == {k \in DOMAIN obj.attribute_values :
                                 obj.attribute_values[k].name \notin valid}
                  IN  IF bad # {}
                      THEN ValueError("ObjectDiagram", "InvalidAttribute",
                                      obj.attribute_values[Min(bad)].name)
                      ELSE validate_objects(od, i + 1)

\* Step 3, the loop over self.links from index i on: the first error, or NoError
RECURSIVE validate_links(_, _)
validate_links(od, i) ==
    IF i > Len(od.links) THEN NoError
    ELSE LET link == od.links[i]
             om == object_map(od)
         IN  IF link.object1_instance_name \notin DOMAIN om
             THEN ValueError("ObjectDiagram", "LinkObjectNotFound", link.object1_instance_name)
             ELSE IF link.object2_instance_name \notin DOMAIN om
             THEN ValueError("ObjectDiagram", "LinkObjectNotFound", link.object2_instance_name)
             ELSE LET obj1 == om[link.object1_instance_name]
                      obj2 == om[link.object2_instance_name]
                      association_key == sorted_pair(obj1.class_name, obj2.class_name)
                  IN  IF association_key \notin valid_associations(od.class_diagram)
                      THEN ValueError("ObjectDiagram", "InvalidLink", "none")
                      ELSE validate_links(od, i + 1)

validate_links_before_objects(od) ==
    LET e3 == validate_links(od, 1)
    IN  IF e3 # NoError THEN e3
        ELSE LET e2 == validate_objects(od, 1)
             IN  IF e2 # NoError THEN e2 ELSE Accepted("ObjectDiagram")

\* ObjectDiagram.validate_against_class_diagram
validate_against_class_diagram(od) ==
    LET e2 == validate_objects(od, 1)
    IN  IF e2 # NoError THEN e2
        ELSE LET e3 == validate_links(od, 1)
             IN  IF e3 # NoError THEN e3 ELSE Accepted("ObjectDiagram")

(***************************************************************************)
(* CRC cards (base.py, "Class-Responsibility-colaborator").                *)
(***************************************************************************)
\* the value None of an Optional[str] field
None == "(None)"

Responsibility ==
    {[collaborators |-> <<"A">>],
     [collaborators |-> <<"C">>]}

\* card names are "A" and "B"; "C" and the empty string name no card
CRCCard ==
    [class_name : {"A", "B"},
     superclass : {None, "", "A", "C"},
     subclasses : {<<>>, <<"B">>, <<"C">>},
     responsibilities : {<<>>} \cup {<<r>> : r \in Responsibility}]

CRCModelContent == [cards : SeqsUpTo(CRCCard, MaxCards)]

\* the truth value of an Optional[str] in a condition: None and "" are false
truthy(s) == s # None /\ s # ""

\* valid_class_names = {card.class_name for card in self.cards}
valid_class_names(m) == {m.cards[i].class_name : i \in DOMAIN m.cards}

\* the body of the loop for one card: the first error, or NoError
validate_card(m, card) ==
    LET valid == valid_class_names(m)
        bad_sub == {k \in DOMAIN card.subclasses : card.subclasses[k] \notin valid}
        bad_resp == {r \in DOMAIN card.responsibilities :
                        \E c \in DOMAIN card.responsibilities[r].collaborators :
                            card.responsibilities[r].collaborators[c] \notin valid}
    IN  IF truthy(card.superclass) /\ card.superclass \notin valid
        THEN ValueError("CRCModel", "SuperclassNotFound", card.superclass)
        ELSE IF bad_sub # {}
        THEN ValueError("CRCModel", "SubclassNotFound", card.subclasses[Min(bad_sub)])
        ELSE IF bad_resp # {}
        THEN LET coll == card.responsibilities[Min(bad_resp)].collaborators
                 bad_c == {c \in DOMAIN coll : coll[c] \notin valid}
             IN  ValueError("CRCModel", "InvalidCollaborator", coll[Min(bad_c)])
        ELSE NoError

\* the loop over self.cards from index i on
RECURSIVE validate_cards(_, _)
validate_cards(m, i) ==
    IF i > Len(m.cards) THEN NoError
    ELSE LET e == validate_card(m, m.cards[i])
         IN  IF e # NoError THEN e ELSE validate_cards(m, i + 1)

\* CRCModel.validate_collaborations_and_inheritance
validate_collaborations_and_inheritance(m) ==
    LET e == validate_cards(m, 1)
    IN  IF e # NoError THEN e ELSE Accepted("CRCModel")

(***************************************************************************)
(* Use-case and activity diagrams (base.py, "Use Case Diagram" and         *)
(* "Activity Diagram"): models without a validator.  Constructing one      *)
(* checks the field constraints only, of which max_length is the one that  *)
(* depends on the content.                                                 *)
(***************************************************************************)
\* max_length of UseCaseDiagram.use_cases and of ActivityDiagram.nodes
MaxUseCases == 15
MaxActivityNodes == 25

ElementIds == {1, 2}

Actor == [id : ElementIds]

UseCase == [id : ElementIds]

Relationship ==
    [source_id : ElementIds, source_type : {"actor", "use_case"},
     target_id : ElementIds, target_type : {"use_case", "actor"}]

UseCaseDiagramContent ==
    [actors : SeqsUpTo(Actor, MaxActors),
     use_cases : SeqsUpTo(UseCase, MaxUseCaseList),
     relationships : SeqsUpTo(Relationship, MaxRelationships)]

ActivityNode == [id : ElementIds, node_type : {"start", "action", "end"}]

ActivityFlow == [source_id : ElementIds, target_id : ElementIds]

ActivityDiagramContent ==
    [nodes : SeqsUpTo(ActivityNode, MaxNodes),
     flows : SeqsUpTo(ActivityFlow, MaxFlows)]

\* UseCaseDiagram(id=..., name=..., actors=..., use_cases=..., relationships=...)
UseCaseDiagram(d) ==
    IF Len(d.use_cases) > MaxUseCases
    THEN ValueError("UseCaseDiagram", "TooLong", "use_cases")
    ELSE Accepted("UseCaseDiagram")

\* ActivityDiagram(id=..., name=..., nodes=..., flows=...)
ActivityDiagram(d) ==
    IF Len(d.nodes) > MaxActivityNodes
    THEN ValueError("ActivityDiagram", "TooLong", "nodes")
    ELSE Accepted("ActivityDiagram")

(***************************************************************************)
(* Collections (base.py, UseCaseModelCollection and ActivityModelCollection):*)
(* models without a validator.                                              *)
(***************************************************************************)
\* a UseCaseDiagram of a collection: its id and its use cases
CollectedUseCaseDiagram ==
    [id : ElementIds,
     use_cases : {<<>>, <<[id |-> 1]>>, <<[id |-> 1], [id |-> 2]>>}]

UseCaseModelCollection == [diagrams : SeqsUpTo(CollectedUseCaseDiagram, MaxUseCaseDiagrams)]

UseCaseLink == [diagram_id : ElementIds, use_case_id : ElementIds]

\* an ActivityDiagram of a collection: its use-case links
LinkedActivityDiagram == [use_case_links : SeqsUpTo(UseCaseLink, MaxUseCaseLinks)]

ActivityModelCollectionContent ==
    [use_case_collection : UseCaseModelCollection,
     activity_diagrams : SeqsUpTo(LinkedActivityDiagram, MaxActivityDiagrams)]

\* ActivityModelCollection(project_name=..., use_case_collection=..., activity_diagrams=...)
ActivityModelCollection(c) == Accepted("ActivityModelCollection")

(***************************************************************************)
(* Activity-diagram rendering (display.py, generate_plantuml_activity and  *)
(* the three walking functions it calls).                                  *)
(***************************************************************************)
MaxChain == 3
MaxRenderFlows == 3

\* an ActivityNode as the renderer reads it
RenderNode(id, name, node_type, condition) ==
    [id |-> id, name |-> name, node_type |-> node_type, condition |-> condition]

\* an ActivityFlow as the renderer reads it
RenderFlow(source_id, target_id, condition) ==
    [source_id |-> source_id, target_id |-> target_id, condition |-> condition]

RenderDiagram(nodes, flows, links, lanes) ==
    [name |-> "d", nodes |-> nodes, flows |-> flows,
     use_case_links |-> links, swimlanes |-> lanes]

NodeNames == <<"Start", "Login", "Accept", "Reject", "Ship", "Bill", "Done">>

\* the node types a flow of the small diagrams may lead to
WalkTypes == {"action", "decision", "merge", "fork", "join", "end"}

LinkOptions == {<<>>, <<[diagram_id |-> 1, use_case_id |-> 12, flow_step |-> "step"]>>}

LaneOptions == {<<>>, <<[id |-> 1, name |-> "User"]>>,
                <<[id |-> 1, name |-> "User"], [id |-> 2, name |-> "Shop"]>>}

\* start -> action_1 -> ... -> action_n -> end, no guard conditions
Chain(n, links, lanes) ==
    RenderDiagram(
        [k \in 1..(n + 2) |->
            IF k = 1 THEN RenderNode(1, "Start", "start", None)
            ELSE IF k = n + 2 THEN RenderNode(k, "Done", "end", None)
            ELSE RenderNode(k, NodeNames[k], "action", None)],
        [k \in 1..(n + 1) |-> RenderFlow(k, k + 1, None)],
        links, lanes)

ChainDiagrams ==
    {Chain(n, links, lanes) : n \in 0..MaxChain, links \in LinkOptions, lanes \in LaneOptions}

\* a decision with two guarded branches, each an action followed by its own end
Decision(condition, guard1, guard2) ==
    RenderDiagram(
        <<RenderNode(1, "Start", "start", None),
          RenderNode(2, "valid?", "decision", condition),
          RenderNode(3, "Accept", "action", None),
          RenderNode(4, "Reject", "action", None),
          RenderNode(5, "Done", "end", None),
          RenderNode(6, "Done", "end", None)>>,
        <<RenderFlow(1, 2, None), RenderFlow(2, 3, guard1), RenderFlow(2, 4, guard2),
          RenderFlow(3, 5, None), RenderFlow(4, 6, None)>>,
        <<>>, <<>>)

DecisionDiagrams ==
    {Decision(c, g1, g2) : c \in {None, "valid?"}, g1 \in {"yes", "ok", None},
                           g2 \in {"no", "fail", None, ""}}

\* a fork with two action branches that meet in a join with a further flow
Fork(after_type, tail) ==
    RenderDiagram(
        <<RenderNode(1, "Start", "start", None),
          RenderNode(2, "Split", "fork", None),
          RenderNode(3, "Accept", "action", None),
          RenderNode(4, "Reject", "action", None),
          RenderNode(5, "Sync", "join", None),
          RenderNode(6, "Bill", after_type, None)>>
            \o (IF tail THEN <<RenderNode(7, "Done", "end", None)>> ELSE <<>>),
        <<RenderFlow(1, 2, None), RenderFlow(2, 3, None), RenderFlow(2, 4, None),
          RenderFlow(3, 5, None), RenderFlow(4, 5, None), RenderFlow(5, 6, None)>>
            \o (IF tail THEN <<RenderFlow(6, 7, None)>> ELSE <<>>),
        <<>>, <<>>)

ForkDiagrams == {Fork(t, tail) : t \in {"action", "end", "merge"}, tail \in BOOLEAN}

\* a node with two outgoing flows, to targets of any type, which both lead on
\* to one node followed by an end
Branch(type, target1, target2, after, guard1, guard2) ==
    RenderDiagram(
        <<RenderNode(1, "Start", "start", None),
          RenderNode(2, "Login", type, None),
          RenderNode(3, "Accept", target1, None),
          RenderNode(4, "Reject", target2, None),
          RenderNode(5, "Ship", after, None),
          RenderNode(6, "Done", "end", None)>>,
        <<RenderFlow(1, 2, None), RenderFlow(2, 3, guard1), RenderFlow(2, 4, guard2),
          RenderFlow(3, 5, None), RenderFlow(4, 5, None), RenderFlow(5, 6, None)>>,
        <<>>, <<>>)

BranchDiagrams ==
    {Branch(type, t1, t2, after, g1, g2) :
        type \in {"action", "decision", "fork"}, t1 \in WalkTypes, t2 \in WalkTypes,
        after \in {"action", "decision", "fork"}, g1 \in {None, "yes"}, g2 \in {None, "no"}}

\* flows among the nodes 1..3, one of them into a node that no list declares
FlowPool ==
    {RenderFlow(1, 2, None), RenderFlow(1, 3, None), RenderFlow(2, 3, "ok"),
     RenderFlow(3, 2, None), RenderFlow(2, 1, None), RenderFlow(2, 4, None)}

\* node lists of up to three nodes: none, a start node alone, a start node
\* followed by nodes of every type, a second start node, a repeated id
SmallNodeLists ==
    LET S == RenderNode(1, "Start", "start", None)
        Second == {RenderNode(2, "Login", t, None) : t \in WalkTypes}
        Third == {RenderNode(3, "Accept", t, None) : t \in WalkTypes \cup {"start"}}
                    \cup {RenderNode(2, "Again", "action", None)}
    IN {<<>>, <<S>>} \cup {<<S, n2>> : n2 \in Second}
         \cup {<<S, n2, n3>> : n2 \in Second, n3 \in Third}

SmallDiagrams ==
    {RenderDiagram(ns, fs, <<>>, <<>>) :
        ns \in SmallNodeLists, fs \in SeqsUpTo(FlowPool, MaxRenderFlows)}

RenderInputs ==
    ChainDiagrams \cup DecisionDiagrams \cup ForkDiagrams \cup BranchDiagrams \cup SmallDiagrams

\* f"{n}" for a non-negative integer
RECURSIVE str(_)
str(n) ==
    LET digit == <<"0", "1", "2", "3", "4", "5", "6", "7", "8", "9">>
    IN IF n < 10 THEN digit[n + 1] ELSE str(n \div 10) \o digit[(n % 10) + 1]

\* stands for the one character U+2022 that opens a linked-use-case line
Bullet == "[U+2022]"

link_line(link) ==
    Bullet \o " UC" \o str(link.use_case_id) \o " (Diagram " \o str(link.diagram_id)
        \o "): " \o link.flow_step

\* the lines appended before the node walk: title, linked use cases, swimlane
header_lines(d) ==
    <<"@startuml", "title " \o d.name, "">>
      \o (IF d.use_case_links # <<>>
          THEN <<"note top", "**Linked Use Cases:**">>
                 \o [k \in DOMAIN d.use_case_links |-> link_line(d.use_case_links[k])]
                 \o <<"end note", "">>
          ELSE <<>>)
      \o (IF d.swimlanes # <<>>
          THEN <<"|" \o d.swimlanes[1].name \o "|", "">>
          ELSE <<>>)

node_map_without_last(nodes) ==
    [k \in {nodes[i].id : i \in 1..(Len(nodes) - 1)} |->
        nodes[Max({i \in 1..(Len(nodes) - 1) : nodes[i].id = k})]]

\* node_map = {node.id: node for node in diagram.nodes}: a later node of the
\* same id replaces the earlier one
node_map(nodes) ==
    [k \in {nodes[i].id : i \in DOMAIN nodes} |->
        nodes[Max({i \in DOMAIN nodes : nodes[i].id = k})]]

\* start_nodes = [n for n in diagram.nodes if n.node_type == "start"]
start_nodes(nodes) ==
    LET is_start(n) == n.node_type = "start" IN SelectSeq(nodes, is_start)

outgoing_flows_reversed(flows, node_id) ==
    LET leaves(f) == f.source_id = node_id
        out == SelectSeq(flows, leaves)
    IN [k \in DOMAIN out |-> out[Len(out) + 1 - k]]

\* outgoing_flows = [f for f in flows if f.source_id == node_id]
outgoing_flows(flows, node_id) ==
    LET leaves(f) == f.source_id = node_id IN SelectSeq(flows, leaves)

add_nothing(processed, id) == processed

\* processed_nodes.add(id)
add(processed, id) == processed \cup {id}

always_unprocessed(id, processed) == TRUE

\* target_node.id not in processed_nodes
not_processed(id, processed) == id \notin processed

statement_bare(node) == node.name

\* f":{target_node.name};"
statement(node) == ":" \o node.name \o ";"

\* target_node.condition or "condition"
decision_header(node) ==
    "if (" \o (IF truthy(node.condition) THEN node.condition ELSE "condition")
           \o ") then (yes)"

elseif_line_guardless(flow) == "elseif (no) then"

\* condition_label = flow.condition or "no"; f"elseif ({condition_label}) then"
elseif_line(flow) ==
    "elseif (" \o (IF truthy(flow.condition) THEN flow.condition ELSE "no") \o ") then"

\* the line that a loop appends for every flow but its first, before it looks
\* at the flow's target; fn names the function whose loop it is
separator(fn, first, flow) ==
    IF first THEN <<>>
    ELSE IF fn = "decision" THEN <<elseif_line(flow)>>
    ELSE IF fn = "fork" THEN <<"fork again">>
    ELSE <<>>

emitted_by_one_rule(fn, node) ==
    LET t == node.node_type
    IN CASE t = "action" -> <<statement(node)>>
         [] t = "decision" -> <<decision_header(node)>>
         [] t = "fork" -> <<"fork">>
         [] t = "merge" -> <<"# Merge point">>
         [] t = "join" -> <<"# Join point">>
         [] t = "end" -> <<"stop">>
         [] OTHER -> <<>>

\* the line that a newly processed target node contributes of its own
emitted(fn, node) ==
    LET t == node.node_type
    IN IF fn = "process"
       THEN CASE t = "action" -> <<statement(node)>>
              [] t = "decision" -> <<decision_header(node)>>
              [] t = "fork" -> <<"fork">>
              [] t = "merge" -> <<"# Merge point">>
              [] t = "join" -> <<"# Join point">>
              [] t = "end" -> <<"stop">>
              [] OTHER -> <<>>
       ELSE IF fn = "decision"
       THEN CASE t = "action" -> <<statement(node)>>
              [] t = "end" -> <<"stop">>
              [] OTHER -> <<>>
       ELSE CASE t = "action" -> <<statement(node)>>
              [] OTHER -> <<>>

callee_stopping_at_convergence(fn, t) ==
    IF fn = "process" /\ t = "decision" THEN "decision"
    ELSE IF fn = "process" /\ t = "fork" THEN "fork"
    ELSE IF t \in {"end", "merge", "join"} THEN ""
    ELSE "process"

\* the function called for a newly processed target of type t, "" for none
callee(fn, t) ==
    IF fn = "process"
    THEN CASE t = "decision" -> "decision"
           [] t = "fork" -> "fork"
           [] t = "end" -> ""
           [] OTHER -> "process"
    ELSE IF fn = "decision"
    THEN (IF t = "end" THEN "" ELSE "process")
    ELSE (IF t \in {"end", "join"} THEN "" ELSE "process")

closing_line_endif_only(fn, t) ==
    IF fn = "process" /\ t \in {"decision", "fork"} THEN "endif" ELSE ""

\* the line appended when the call made for a decision or a fork returns
closing_line(fn, t) ==
    IF fn = "process" /\ t = "decision" THEN "endif"
    ELSE IF fn = "process" /\ t = "fork" THEN "end fork"
    ELSE ""

\* "\n".join(lines)
RECURSIVE join(_, _)
join(sep, ls) ==
    IF ls = <<>> THEN ""
    ELSE IF Len(ls) = 1 THEN ls[1]
    ELSE ls[1] \o sep \o join(sep, Tail(ls))

\* the flow of the history entry of the start node, which no flow led to
NoFlow == RenderFlow(0, 0, None)

\* a call of one of the walking functions: its node, the position i of its
\* loop in outgoing_flows (counted from 1) and the line owed when its callee returns
Frame(fn, node_id) == [fn |-> fn, node_id |-> node_id, i |-> 1, closing |-> ""]

ClassIdle == class_diagram = Unused /\ class_result = Idle

ObjectIdle == object_diagram = Unused /\ object_result = Idle

CRCIdle == crc_model = Unused /\ crc_result = Idle

DiagramIdle ==
    usecase_diagram = Unused /\ activity_diagram = Unused /\ diagram_result = Idle

CollectionIdle == activity_collection = Unused /\ collection_result = Idle

RenderIdle ==
    /\ diagram = Unused /\ lines = Unused /\ processed_nodes = Unused
    /\ stack = Unused /\ render_pc = Unused /\ visits = Unused

class_vars == <<class_diagram, class_result>>

collection_vars == <<activity_collection, collection_result>>

render_vars == <<diagram, lines, processed_nodes, stack, render_pc, visits>>

object_vars == <<object_diagram, object_result>>

crc_vars == <<crc_model, crc_result>>

diagram_vars == <<usecase_diagram, activity_diagram, diagram_result>>

ClassInit ==
    /\ class_diagram \in ClassDiagramContent
    /\ class_result = Pending
    /\ ObjectIdle /\ CRCIdle /\ DiagramIdle /\ CollectionIdle /\ RenderIdle

\* construction with the class defined at line 420:
\* the fields are populated, then validate_diagram_integrity runs
ConstructValidatedClassDiagram ==
    /\ class_result = Pending
    /\ class_result' = validate_diagram_integrity(class_diagram)
    /\ UNCHANGED <<class_diagram, object_vars, crc_vars, diagram_vars, collection_vars, render_vars>>

\* ClassDiagram(classes=..., associations=..., generalizations=...) as a caller of the
\* module writes it: the class of line 478
ConstructClassDiagram ==
    /\ class_result = Pending
    /\ class_result' = ClassDiagram(class_diagram)
    /\ UNCHANGED <<class_diagram, object_vars, crc_vars, diagram_vars, collection_vars, render_vars>>

ClassNext == ConstructValidatedClassDiagram \/ ConstructClassDiagram

SpecClass == ClassInit /\ [][ClassNext]_vars
ObjectInit ==
    /\ object_diagram \in ObjectDiagramContent
    /\ object_result = Pending
    /\ ClassIdle /\ CRCIdle /\ DiagramIdle /\ CollectionIdle /\ RenderIdle

ConstructObjectDiagramDroppingLinks ==
    /\ object_result = Pending
    /\ object_result' = validate_against_class_diagram(object_diagram)
    /\ object_diagram' = [object_diagram EXCEPT !.links = <<>>]
    /\ UNCHANGED <<class_vars, crc_vars, diagram_vars, collection_vars, render_vars>>

\* ObjectDiagram(name=..., class_diagram=..., objects=..., links=...)
ConstructObjectDiagram ==
    /\ object_result = Pending
    /\ object_result' = validate_against_class_diagram(object_diagram)
    /\ UNCHANGED <<object_diagram, class_vars, crc_vars, diagram_vars, collection_vars, render_vars>>

SpecObject == ObjectInit /\ [][ConstructObjectDiagram]_vars

CRCInit ==
    /\ crc_model \in CRCModelContent
    /\ crc_result = Pending
    /\ ClassIdle /\ ObjectIdle /\ DiagramIdle /\ CollectionIdle /\ RenderIdle

\* CRCModel(project_name=..., cards=...)
ConstructCRCModel ==
    /\ crc_result = Pending
    /\ crc_result' = validate_collaborations_and_inheritance(crc_model)
    /\ UNCHANGED <<crc_model, class_vars, object_vars, diagram_vars, collection_vars, render_vars>>

SpecCRC == CRCInit /\ [][ConstructCRCModel]_vars

DiagramInit ==
    /\ usecase_diagram \in UseCaseDiagramContent
    /\ activity_diagram \in ActivityDiagramContent
    /\ diagram_result = Pending
    /\ ClassIdle /\ ObjectIdle /\ CRCIdle /\ CollectionIdle /\ RenderIdle

ConstructUseCaseDiagram ==
    /\ diagram_result = Pending
    /\ diagram_result' = UseCaseDiagram(usecase_diagram)
    /\ UNCHANGED <<usecase_diagram, activity_diagram, class_vars, object_vars, crc_vars, collection_vars, render_vars>>

ConstructActivityDiagram ==
    /\ diagram_result = Pending
    /\ diagram_result' = ActivityDiagram(activity_diagram)
    /\ UNCHANGED <<usecase_diagram, activity_diagram, class_vars, object_vars, crc_vars, collection_vars, render_vars>>

DiagramNext == ConstructUseCaseDiagram \/ ConstructActivityDiagram

SpecDiagram == DiagramInit /\ [][DiagramNext]_vars

CollectionInit ==
    /\ activity_collection \in ActivityModelCollectionContent
    /\ collection_result = Pending
    /\ ClassIdle /\ ObjectIdle /\ CRCIdle /\ DiagramIdle /\ RenderIdle

ConstructActivityModelCollection ==
    /\ collection_result = Pending
    /\ collection_result' = ActivityModelCollection(activity_collection)
    /\ UNCHANGED <<activity_collection, class_vars, object_vars, crc_vars, diagram_vars,
                   render_vars>>

SpecCollection == CollectionInit /\ [][ConstructActivityModelCollection]_vars

(***************************************************************************)
(* Rendering one activity diagram.  The recursion of the walking functions  *)
(* is kept as a stack of calls; each step is one iteration of a loop over   *)
(* outgoing_flows, or the return of a call.                                 *)
(***************************************************************************)
RenderInit ==
    /\ diagram \in RenderInputs
    /\ lines = <<>>
    /\ processed_nodes = {}
    /\ stack = <<>>
    /\ render_pc = "ready"
    /\ visits = <<>>
    /\ ClassIdle /\ ObjectIdle /\ CRCIdle /\ DiagramIdle /\ CollectionIdle

other_vars == <<class_vars, object_vars, crc_vars, diagram_vars, collection_vars>>

\* the innermost call
top == stack[Len(stack)]

\* the loop of the innermost call moves to its next flow
next_flow(closing) ==
    [stack EXCEPT ![Len(stack)] = [@ EXCEPT !.i = @ + 1, !.closing = closing]]

\* generate_plantuml_activity up to its call of _process_flows_from_node; with
\* no start node, the whole function
generate_plantuml_activity ==
    /\ render_pc = "ready"
    /\ LET starts == start_nodes(diagram.nodes)
       IN IF starts # <<>>
          THEN /\ lines' = header_lines(diagram) \o <<"start">>
               /\ processed_nodes' = add(processed_nodes, starts[1].id)
               /\ stack' = <<Frame("process", starts[1].id)>>
               /\ render_pc' = "walking"
               /\ visits' = <<[node |-> starts[1].id, by |-> "generate",
                               emitted |-> <<"start">>, flow |-> NoFlow,
                               before |-> <<>>, depth |-> 0, called |-> "process"]>>
          ELSE /\ lines' = header_lines(diagram) \o <<"@enduml">>
               /\ render_pc' = "returned"
               /\ UNCHANGED <<processed_nodes, stack, visits>>
    /\ UNCHANGED <<diagram, other_vars>>

\* one iteration of the loop of the innermost call, which runs function fn
iteration(fn) ==
    LET flow == outgoing_flows(diagram.flows, top.node_id)[top.i]
        before == separator(fn, top.i = 1, flow)
        map == node_map(diagram.nodes)
    IN IF flow.target_id \notin DOMAIN map
       THEN /\ render_pc' = "KeyError"
            /\ lines' = lines \o before
            /\ UNCHANGED <<processed_nodes, stack, visits>>
       ELSE LET target_node == map[flow.target_id]
                note == IF fn = "process" /\ truthy(flow.condition)
                        THEN <<"note right : " \o flow.condition>> ELSE <<>>
                own == emitted(fn, target_node)
                called == callee(fn, target_node.node_type)
            IN IF not_processed(target_node.id, processed_nodes)
               THEN /\ processed_nodes' = add(processed_nodes, target_node.id)
                    /\ lines' = lines \o before \o note \o own
                    /\ visits' = Append(visits, [node |-> target_node.id, by |-> fn,
                                                 emitted |-> own, flow |-> flow,
                                                 before |-> before \o note,
                                                 depth |-> Len(stack), called |-> called])
                    /\ stack' = IF called = "" THEN next_flow("")
                                ELSE Append(next_flow(closing_line(fn, target_node.node_type)),
                                            Frame(called, target_node.id))
                    /\ UNCHANGED render_pc
               ELSE /\ lines' = lines \o before
                    /\ stack' = next_flow("")
                    /\ UNCHANGED <<processed_nodes, render_pc, visits>>

in_loop(fn) ==
    /\ render_pc = "walking"
    /\ stack # <<>>
    /\ top.fn = fn
    /\ top.i <= Len(outgoing_flows(diagram.flows, top.node_id))

process_flows_from_node ==
    /\ in_loop("process")
    /\ iteration("process")
    /\ UNCHANGED <<diagram, other_vars>>

handle_decision_branches ==
    /\ in_loop("decision")
    /\ iteration("decision")
    /\ UNCHANGED <<diagram, other_vars>>

handle_fork_branches ==
    /\ in_loop("fork")
    /\ iteration("fork")
    /\ UNCHANGED <<diagram, other_vars>>

\* the innermost call has gone through its flows and returns; a caller that
\* opened an if or a fork closes it
return_from_call ==
    /\ render_pc = "walking"
    /\ stack # <<>>
    /\ top.i > Len(outgoing_flows(diagram.flows, top.node_id))
    /\ LET callers == SubSeq(stack, 1, Len(stack) - 1)
       IN IF callers # <<>> /\ callers[Len(callers)].closing # ""
          THEN /\ lines' = Append(lines, callers[Len(callers)].closing)
               /\ stack' = [callers EXCEPT ![Len(callers)].closing = ""]
          ELSE /\ lines' = lines
               /\ stack' = callers
    /\ UNCHANGED <<diagram, processed_nodes, render_pc, visits, other_vars>>

\* lines.append("@enduml"); return "\n".join(lines)
return_text ==
    /\ render_pc = "walking"
    /\ stack = <<>>
    /\ lines' = Append(lines, "@enduml")
    /\ render_pc' = "returned"
    /\ UNCHANGED <<diagram, processed_nodes, stack, visits, other_vars>>

RenderNext ==
    \/ generate_plantuml_activity
    \/ process_flows_from_node
    \/ handle_decision_branches
    \/ handle_fork_branches
    \/ return_from_call
    \/ return_text

SpecRender == RenderInit /\ [][RenderNext]_vars

\* a call that can take a step is not held back for ever
SpecRenderFair == SpecRender /\ WF_vars(RenderNext)

(***************************************************************************)
(* Any one validation or rendering, on any of the inputs above.            *)
(***************************************************************************)
OperationsInit == ClassInit \/ ObjectInit \/ CRCInit \/ RenderInit

OperationsNext == ClassNext \/ ConstructObjectDiagram \/ ConstructCRCModel \/ RenderNext

SpecOperations == OperationsInit /\ [][OperationsNext]_vars

(***************************************************************************)
(* The two validators whose checks come in a stated order.                 *)
(***************************************************************************)
ValidatorsInit == ClassInit \/ ObjectInit

ValidatorsNext == ConstructValidatedClassDiagram \/ ConstructObjectDiagram

SpecValidators == ValidatorsInit /\ [][ValidatorsNext]_vars

(***************************************************************************)
(* Properties of class-diagram construction.                               *)
(***************************************************************************)
UniqueClassNames(d) ==
    \A i, j \in DOMAIN d.classes : d.classes[i].name = d.classes[j].name => i = j

\* the generalization edges, subclass -> superclass, every declared edge counted
GenEdges(d) ==
    {<<d.generalizations[i].subclass, d.generalizations[i].superclass>> :
        i \in DOMAIN d.generalizations}

RECURSIVE Closure(_, _)
Closure(E, S) ==
    LET more == S \cup {e[2] : e \in {f \in E : f[1] \in S}}
    IN  IF more = S THEN S ELSE Closure(E, more)

\* the classes reached from n along one or more generalization edges
Ancestors(d, n) == Closure(GenEdges(d), {e[2] : e \in {f \in GenEdges(d) : f[1] = n}})

OnCycle(d, n) == n \in Ancestors(d, n)

HasCycle(d) == \E n \in ClassNames : OnCycle(d, n)

WellReferenced(d) == UniqueClassNames(d) /\ BadAssocs(d) = {} /\ BadGens(d) = {}

\* C1: a class diagram with unique class names and resolvable endpoints whose
\* generalization edges contain a directed cycle (a self-loop included) is
\* rejected with the circular-inheritance error, and the class the error names
\* lies on a cycle.  Stated of the validating class of line 420.
C1_CycleRejected ==
    (/\ class_result.via = "ValidatedClassDiagram"
     /\ WellReferenced(class_diagram)
     /\ HasCycle(class_diagram))
    => (/\ class_result.status = "rejected"
        /\ class_result.error = "CircularInheritance"
        /\ OnCycle(class_diagram, class_result.name))

\* C2: a class diagram with unique class names, resolvable association and
\* generalization endpoints and no directed cycle among its generalization edges
\* is accepted, by the validating class and by the redefined one, whatever the
\* depth of the chains and however many superclasses a subclass declares.
C2_AcyclicAccepted ==
    (/\ class_result.status # "pending"
     /\ WellReferenced(class_diagram)
     /\ ~HasCycle(class_diagram))
    => class_result.status = "accepted"

\* a diagram with an inheritance chain of depth two, accepted by the validating class
C2_Witness ==
    /\ class_result = Accepted("ValidatedClassDiagram")
    /\ WellReferenced(class_diagram)
    /\ \E x, y, z \in ClassNames :
          /\ Cardinality({x, y, z}) = 3
          /\ GenEdges(class_diagram) = {<<x, y>>, <<y, z>>}

\* C8: a class diagram in which two classes share a name is rejected with the
\* duplicate-name error, by whichever ClassDiagram class constructs it.
C8_DuplicateNamesRejected ==
    (/\ class_result.status # "pending"
     /\ ~UniqueClassNames(class_diagram))
    => (/\ class_result.status = "rejected"
        /\ class_result.error = "DuplicateClassNames")

(***************************************************************************)
(* Properties of object-diagram construction.                              *)
(***************************************************************************)
\* the class diagram declares an association between X and Y, in either order
Associated(cd, X, Y) ==
    \E i \in DOMAIN cd.associations :
        \/ cd.associations[i].class1_name = X /\ cd.associations[i].class2_name = Y
        \/ cd.associations[i].class1_name = Y /\ cd.associations[i].class2_name = X

ObjectsNamed(od, n) == {od.objects[i] : i \in {j \in DOMAIN od.objects : od.objects[j].instance_name = n}}

\* both ends of the link are objects of the diagram
LinkResolves(od, l) ==
    /\ ObjectsNamed(od, l.object1_instance_name) # {}
    /\ ObjectsNamed(od, l.object2_instance_name) # {}

\* the classes of the two linked objects are associated
LinkBacked(od, l) ==
    \A a \in ObjectsNamed(od, l.object1_instance_name) :
        \A b \in ObjectsNamed(od, l.object2_instance_name) :
            Associated(od.class_diagram, a.class_name, b.class_name)

LinkErrors == {"LinkObjectNotFound", "InvalidLink"}

\* C3: a link between two objects of the diagram is accepted exactly when the
\* class diagram declares an association between their two classes, in either
\* order: a diagram with a link that no association backs is rejected, and a
\* diagram whose links all resolve and are all backed is never rejected for a
\* link, however many links it has.
C3_LinkNeedsAssociation ==
    object_result.status # "pending" =>
        /\ (\E i \in DOMAIN object_diagram.links :
                /\ LinkResolves(object_diagram, object_diagram.links[i])
                /\ ~LinkBacked(object_diagram, object_diagram.links[i]))
           => object_result.status = "rejected"
        /\ (\A i \in DOMAIN object_diagram.links :
                /\ LinkResolves(object_diagram, object_diagram.links[i])
                /\ LinkBacked(object_diagram, object_diagram.links[i]))
           => object_result.error \notin LinkErrors

\* an accepted diagram with a link from an object of class B to an object of
\* class A, backed by an association declared from A to B only
C3_Witness ==
    /\ object_result = Accepted("ObjectDiagram")
    /\ \E i \in DOMAIN object_diagram.links :
          \E a \in ObjectsNamed(object_diagram, object_diagram.links[i].object1_instance_name) :
            \E b \in ObjectsNamed(object_diagram, object_diagram.links[i].object2_instance_name) :
              /\ a.class_name = "B" /\ b.class_name = "A"
              /\ \A k \in DOMAIN object_diagram.class_diagram.associations :
                    object_diagram.class_diagram.associations[k]
                        = [class1_name |-> "A", class2_name |-> "B"]
              /\ object_diagram.class_diagram.associations # <<>>

RefClassNamesOf(cd) == {cd.classes[i].name : i \in DOMAIN cd.classes}

\* C4: an object diagram with an object whose class_name names no class of the
\* referenced class diagram is rejected.
C4_UnknownClassRejected ==
    (/\ object_result.status # "pending"
     /\ \E i \in DOMAIN object_diagram.objects :
           object_diagram.objects[i].class_name
               \notin RefClassNamesOf(object_diagram.class_diagram))
    => object_result.status = "rejected"

\* a rejection for the unknown class of an object, in a diagram without links
C4_Witness ==
    /\ object_result.status = "rejected"
    /\ object_result.error = "UnknownClass"
    /\ object_result.name \notin RefClassNamesOf(object_diagram.class_diagram)
    /\ object_diagram.links = <<>>

\* the attribute names declared by the class that the name resolves to
DeclaredAttributes(cd, cname) ==
    IF cname \in DOMAIN class_map(cd)
    THEN {class_map(cd)[cname].attributes[k].name : k \in DOMAIN class_map(cd)[cname].attributes}
    ELSE {}

\* the objects that carry an attribute value their class does not declare
Undeclared(od) ==
    {i \in DOMAIN od.objects :
        \E k \in DOMAIN od.objects[i].attribute_values :
            od.objects[i].attribute_values[k].name
                \notin DeclaredAttributes(od.class_diagram, od.objects[i].class_name)}

\* C5: an object diagram with an attribute value whose name is not declared by
\* the object's class is rejected, and a diagram is rejected for an attribute
\* only when some object carries a value that its class does not declare.
C5_AttributesDeclared ==
    object_result.status # "pending" =>
        /\ Undeclared(object_diagram) # {} => object_result.status = "rejected"
        /\ Undeclared(object_diagram) = {} => object_result.error # "InvalidAttribute"

\* a rejection for attribute x on an object of class B, while class A declares x
C5_Witness ==
    /\ object_result.status = "rejected"
    /\ object_result.error = "InvalidAttribute"
    /\ \E i \in DOMAIN object_diagram.objects :
          /\ object_diagram.objects[i].class_name = "B"
          /\ object_diagram.objects[i].attribute_values # <<>>
    /\ "x" \in DeclaredAttributes(object_diagram.class_diagram, "A")

(***************************************************************************)
(* Properties of use-case and activity diagram construction.               *)
(***************************************************************************)
UniqueIds(elements) ==
    \A i, j \in DOMAIN elements : elements[i].id = elements[j].id => i = j

IdsOf(elements) == {elements[i].id : i \in DOMAIN elements}

\* the id set that a kind tag selects
IdSet(d, kind) == IF kind = "actor" THEN IdsOf(d.actors) ELSE IdsOf(d.use_cases)

Dangling(d, r) ==
    \/ r.source_id \notin IdSet(d, r.source_type)
    \/ r.target_id \notin IdSet(d, r.target_type)

\* C6: a use-case diagram with two actors or two use cases of one id, and an
\* activity diagram with two nodes of one id, is rejected with a
\* duplicate-identifier error.
C6_DuplicateIdRejected ==
    /\ (/\ diagram_result.via = "UseCaseDiagram"
         /\ ~(UniqueIds(usecase_diagram.actors) /\ UniqueIds(usecase_diagram.use_cases)))
        => diagram_result.status = "rejected"
    /\ (/\ diagram_result.via = "ActivityDiagram"
         /\ ~UniqueIds(activity_diagram.nodes))
        => diagram_result.status = "rejected"

\* C7: a use-case diagram with a relationship whose source_id or target_id is
\* not in the id set that the endpoint's kind tag selects is rejected.
C7_DanglingEndpointRejected ==
    (/\ diagram_result.via = "UseCaseDiagram"
     /\ \E i \in DOMAIN usecase_diagram.relationships :
           Dangling(usecase_diagram, usecase_diagram.relationships[i]))
    => diagram_result.status = "rejected"

\* the structural shape of an activity diagram: exactly one start node, at least
\* one end node, every flow between nodes of the diagram
NodesOfType(d, t) == {i \in DOMAIN d.nodes : d.nodes[i].node_type = t}

FlowsResolve(d) ==
    \A i \in DOMAIN d.flows :
        d.flows[i].source_id \in IdsOf(d.nodes) /\ d.flows[i].target_id \in IdsOf(d.nodes)

WellShaped(d) ==
    /\ Cardinality(NodesOfType(d, "start")) = 1
    /\ NodesOfType(d, "end") # {}
    /\ FlowsResolve(d)

\* C11: an activity diagram is accepted only if it has exactly one start node,
\* at least one end node and flows whose source and target are nodes of it.
C11_ShapeEnforced ==
    (diagram_result.via = "ActivityDiagram" /\ diagram_result.status = "accepted")
    => WellShaped(activity_diagram)

\* the link names a use case of a diagram of the collection
LinkResolvesIn(ucc, l) ==
    \E i \in DOMAIN ucc.diagrams :
        /\ ucc.diagrams[i].id = l.diagram_id
        /\ l.use_case_id \in IdsOf(ucc.diagrams[i].use_cases)

\* C12: an activity model collection with a use-case link that names no
\* (diagram, use case) pair of the referenced use-case collection is rejected.
C12_UseCaseLinksResolve ==
    (/\ collection_result.status # "pending"
     /\ \E a \in DOMAIN activity_collection.activity_diagrams :
           \E k \in DOMAIN activity_collection.activity_diagrams[a].use_case_links :
               ~LinkResolvesIn(activity_collection.use_case_collection,
                               activity_collection.activity_diagrams[a].use_case_links[k]))
    => collection_result.status = "rejected"

(***************************************************************************)
(* Properties of validation and rendering as operations on their inputs.   *)
(***************************************************************************)
\* C14: a validation or a rendering leaves its input as it was: the class
\* diagram, the object diagram with the class diagram it references, the CRC
\* model and the rendered activity diagram never change, whether the
\* operation accepts, rejects, returns or raises.
C14_InputsUnchanged ==
    [][/\ class_diagram' = class_diagram
       /\ object_diagram' = object_diagram
       /\ crc_model' = crc_model
       /\ diagram' = diagram]_vars

\* an object diagram with a link has been validated and rejected
C14_Witness ==
    /\ object_result.status = "rejected"
    /\ object_diagram.links # <<>>

(***************************************************************************)
(* Properties of the rendering of activity diagrams.                       *)
(***************************************************************************)
Returned == render_pc = "returned"

\* the position of the first line equal to l, 0 if there is none
Position(ls, l) ==
    IF \E i \in DOMAIN ls : ls[i] = l THEN Min({i \in DOMAIN ls : ls[i] = l}) ELSE 0

Occurrences(ls, l) == Cardinality({i \in DOMAIN ls : ls[i] = l})

\* sub is ls with some lines left out
RECURSIVE IsSubsequence(_, _)
IsSubsequence(sub, ls) ==
    IF sub = <<>> THEN TRUE
    ELSE IF ls = <<>> THEN FALSE
    ELSE IF sub[1] = ls[1] THEN IsSubsequence(Tail(sub), Tail(ls))
    ELSE IsSubsequence(sub, Tail(ls))

\* the returned lines open with @startuml and close with @enduml
Framed == Len(lines) >= 2 /\ lines[1] = "@startuml" /\ lines[Len(lines)] = "@enduml"

\* the lines from the `start` line to the one before the closing @enduml
WalkLines == SubSeq(lines, Position(lines, "start"), Len(lines) - 1)

\* start -> action_1 -> ... -> action_n -> end with no guard conditions
IsChain(d) ==
    /\ Len(d.nodes) >= 2
    /\ UniqueIds(d.nodes)
    /\ d.nodes[1].node_type = "start"
    /\ d.nodes[Len(d.nodes)].node_type = "end"
    /\ \A k \in 2..(Len(d.nodes) - 1) : d.nodes[k].node_type = "action"
    /\ Len(d.flows) = Len(d.nodes) - 1
    /\ \A k \in DOMAIN d.flows :
          /\ d.flows[k].source_id = d.nodes[k].id
          /\ d.flows[k].target_id = d.nodes[k + 1].id
          /\ d.flows[k].condition = None

ChainLines(d) ==
    <<"start">> \o [k \in 1..(Len(d.nodes) - 2) |-> ":" \o d.nodes[k + 1].name \o ";"]
                \o <<"stop">>

\* C15 as stated: the rendering of a chain without guards is exactly the lines
\* start, one statement per action in chain order, stop.
C15_ChainLinesExactly ==
    (Returned /\ IsChain(diagram)) => lines = ChainLines(diagram)

\* C15: the rendering of a chain without guards opens with @startuml, closes
\* with @enduml, and from its `start` line to the line before @enduml it is
\* exactly start, one statement per action in chain order, stop.
C15_ChainWalkLines ==
    (Returned /\ IsChain(diagram)) => (Framed /\ WalkLines = ChainLines(diagram))

\* the chain start(1), action(2, "Login"), end(3) has been rendered
C15_Witness ==
    /\ Returned
    /\ IsChain(diagram)
    /\ Len(diagram.nodes) = 3
    /\ lines = <<"@startuml", "title d", "", "start", ":Login;", "stop", "@enduml">>
    /\ join("\n", lines) = "@startuml\ntitle d\n\nstart\n:Login;\nstop\n@enduml"

\* C16 as stated: a decision with branches guarded "yes" and "no" renders, in
\* this order, if ("yes") then, the first statement, stop, elseif ("no") then,
\* the second statement, stop, endif.
C16_GuardsInHeaders ==
    (/\ Returned
     /\ diagram \in DecisionDiagrams
     /\ diagram.flows[2].condition = "yes"
     /\ diagram.flows[3].condition = "no")
    => IsSubsequence(<<"if (\"yes\") then", ":Accept;", "stop",
                       "elseif (\"no\") then", ":Reject;", "stop", "endif">>, lines)

\* C16: a decision with two guarded branches, each an action followed by its
\* own end node, renders exactly: the if header with the decision node's
\* condition (the word condition when it has none) and the fixed label (yes),
\* the first statement, stop, an elseif line with the second flow's guard
\* unquoted (no when it has none), the second statement, stop, endif.
C16_DecisionBlock ==
    (Returned /\ diagram \in DecisionDiagrams)
    => LET c == diagram.nodes[2].condition
           g == diagram.flows[3].condition
       IN WalkLines =
            <<"start",
              "if (" \o (IF c \in {None, ""} THEN "condition" ELSE c) \o ") then (yes)",
              ":Accept;", "stop",
              "elseif (" \o (IF g \in {None, ""} THEN "no" ELSE g) \o ") then",
              ":Reject;", "stop", "endif">>

\* the decision guarded "yes" and "no" has been rendered
C16_Witness ==
    /\ Returned
    /\ diagram = Decision(None, "yes", "no")
    /\ Position(lines, "if (condition) then (yes)") = 5
    /\ Position(lines, "elseif (no) then") = 8

\* the nodes located after the join of a fork diagram
AfterJoin(d) == {d.nodes[k].id : k \in {k \in DOMAIN d.nodes : k > 5}}

LinesAfterJoin(d) ==
    LET t == d.nodes[6].node_type
        own == IF t = "action" THEN <<":Bill;">>
               ELSE IF t = "merge" THEN <<"# Merge point">>
               ELSE <<"stop">>
    IN own \o (IF t # "end" /\ Len(d.nodes) = 7 THEN <<"stop">> ELSE <<>>)

Resolvable(d) == UniqueIds(d.nodes) /\ FlowsResolve(d)

\* the innermost call is about to look at a flow
InLoop ==
    /\ render_pc = "walking"
    /\ stack # <<>>
    /\ top.i <= Len(outgoing_flows(diagram.flows, top.node_id))

CurrentFlow == outgoing_flows(diagram.flows, top.node_id)[top.i]

\* C18: the rendering of a diagram with unique node ids and resolvable flows
\* terminates, cycles included; every step that makes a call adds a node that
\* was not yet processed, and a flow whose target is already processed makes
\* no call and processes and emits no node.
C18_Terminates ==
    /\ (render_pc = "ready" /\ Resolvable(diagram)) ~> Returned
    /\ [][Len(stack') > Len(stack)
            => \E n \in IdsOf(diagram.nodes) :
                  n \notin processed_nodes /\ processed_nodes' = processed_nodes \cup {n}]_vars
    /\ [][(InLoop /\ CurrentFlow.target_id \in processed_nodes)
            => /\ Len(stack') = Len(stack)
               /\ processed_nodes' = processed_nodes
               /\ visits' = visits]_vars

\* the cycle action 2 -> action 3 -> action 2 has been rendered, node 2 once
C18_Witness ==
    /\ Returned
    /\ Resolvable(diagram)
    /\ Len(diagram.nodes) = 3
    /\ diagram.nodes[2].node_type = "action" /\ diagram.nodes[3].node_type = "action"
    /\ diagram.flows = <<RenderFlow(1, 2, None), RenderFlow(2, 3, "ok"), RenderFlow(3, 2, None)>>
    /\ Occurrences(lines, ":Login;") = 1
    /\ Occurrences(lines, ":Accept;") = 1

\* C19: while a diagram with unique node ids and resolvable flows is rendered,
\* no node is added to the processed set twice, a processed node contributes
\* at most one line of its own, and no action's statement occurs twice.
C19_ProcessedOnce ==
    (render_pc # "ready" /\ Resolvable(diagram))
    => /\ \A i, j \in DOMAIN visits : visits[i].node = visits[j].node => i = j
       /\ processed_nodes = {visits[i].node : i \in DOMAIN visits}
       /\ \A i \in DOMAIN visits : Len(visits[i].emitted) <= 1
       /\ \A k \in DOMAIN diagram.nodes :
             diagram.nodes[k].node_type = "action"
             => Occurrences(lines, ":" \o diagram.nodes[k].name \o ";") <= 1

\* a join that two flows lead to, one from each branch of a fork, was emitted once
C19_Witness ==
    /\ Returned
    /\ diagram \in ForkDiagrams
    /\ Occurrences(lines, "# Join point") = 1
    /\ Cardinality({i \in DOMAIN diagram.flows : diagram.flows[i].target_id = 5}) = 2

\* C20: rendering a diagram with exactly one start node, an end node, unique
\* node ids and resolving flows never raises KeyError, and what it returns
\* opens with @startuml and closes with @enduml.
C20_NoErrorWhenShaped ==
    (WellShaped(diagram) /\ UniqueIds(diagram.nodes))
    => /\ render_pc # "KeyError"
       /\ InLoop => CurrentFlow.target_id \in DOMAIN node_map(diagram.nodes)
       /\ Returned => Framed

\* a well-shaped diagram with two flows or more has been rendered
C20_Witness ==
    /\ Returned
    /\ WellShaped(diagram) /\ UniqueIds(diagram.nodes)
    /\ Len(diagram.flows) >= 2
    /\ Len(visits) >= 3

\* the node that an id denotes in the rendering
NodeOf(id) == node_map(diagram.nodes)[id]

\* the type of the node of a history entry
TypeOf(v) == NodeOf(v.node).node_type

Markers == {"merge", "join"}

C22_BranchTargetsBySameRules ==
    \A k \in DOMAIN visits :
        visits[k].by = "decision"
        => /\ visits[k].emitted = emitted("process", NodeOf(visits[k].node))
           /\ visits[k].called = "process" <=> TypeOf(visits[k]) \notin {"decision", "fork", "end"}

\* C23 as stated: an unvisited target of a fork branch is emitted whatever its
\* type, the walk goes on from it unless it is an end or a join node, and
\* every branch but the first is preceded by fork again.
C23_ForkTargetsEmitted ==
    \A k \in DOMAIN visits :
        visits[k].by = "fork"
        => /\ visits[k].emitted = emitted("process", NodeOf(visits[k].node))
           /\ visits[k].called = "process" <=> TypeOf(visits[k]) \notin {"end", "join"}
           /\ visits[k].flow # outgoing_flows(diagram.flows, visits[k].flow.source_id)[1]
              => visits[k].before = <<"fork again">>

\* C24 as stated: every processed end node has emitted exactly one stop line,
\* however it was reached, and no flow leaving an end node is followed.
C24_EveryEndStops ==
    \A k \in DOMAIN visits :
        TypeOf(visits[k]) = "end"
        => /\ visits[k].emitted = <<"stop">>
           /\ Occurrences(lines, "stop") >=
                 Cardinality({j \in DOMAIN visits : TypeOf(visits[j]) = "end"})
           /\ visits[k].called = ""

\* C25 as stated: a flow with a non-empty condition that is followed to an
\* unvisited target puts a line carrying the condition, a note or an elseif
\* label, right before the target's own emission.
C25_GuardsPreserved ==
    \A k \in DOMAIN visits :
        LET g == visits[k].flow.condition
            b == visits[k].before
        IN truthy(g)
           => /\ b # <<>>
              /\ b[Len(b)] \in {"note right : " \o g, "elseif (" \o g \o ") then"}

(***************************************************************************)
(* Properties of the order of the checks of a validator.                   *)
(***************************************************************************)
\* the generalizations that no later generalization of the same subclass replaces
LastDeclared(d) ==
    {i \in DOMAIN d.generalizations :
        \A j \in DOMAIN d.generalizations :
            d.generalizations[j].subclass = d.generalizations[i].subclass => j <= i}

\* the edges subclass -> last declared superclass
MapEdges(d) ==
    {<<d.generalizations[i].subclass, d.generalizations[i].superclass>> : i \in LastDeclared(d)}

MapHasCycle(d) ==
    \E n \in ClassNames :
        n \in Closure(MapEdges(d), {e[2] : e \in {f \in MapEdges(d) : f[1] = n}})

Violation(stage, i, part, error, nm) ==
    [rank |-> stage * 100 + i * 10 + part, error |-> error, name |-> nm]

\* the checks that a class diagram violates: those on names and endpoints,
\* and the cycle check, the last in the order, when none of those is violated
ClassViolations(d) ==
    LET names == {d.classes[i].name : i \in DOMAIN d.classes}
        early ==
            (IF UniqueClassNames(d) THEN {}
             ELSE {Violation(1, 0, 0, "DuplicateClassNames", "none")})
            \cup {Violation(2, i, 1, "AssociationClassNotFound", d.associations[i].class1_name) :
                    i \in {j \in DOMAIN d.associations : d.associations[j].class1_name \notin names}}
            \cup {Violation(2, i, 2, "AssociationClassNotFound", d.associations[i].class2_name) :
                    i \in {j \in DOMAIN d.associations : d.associations[j].class2_name \notin names}}
            \cup {Violation(3, i, 1, "SubclassNotFound", d.generalizations[i].subclass) :
                    i \in {j \in DOMAIN d.generalizations : d.generalizations[j].subclass \notin names}}
            \cup {Violation(3, i, 2, "SuperclassNotFound", d.generalizations[i].superclass) :
                    i \in {j \in DOMAIN d.generalizations : d.generalizations[j].superclass \notin names}}
    IN IF early # {} THEN early
       ELSE IF MapHasCycle(d) THEN {Violation(4, 0, 0, "CircularInheritance", "none")}
       ELSE {}

\* the name of the first attribute value of object i that its class does not declare
FirstUndeclared(od, i) ==
    LET values == od.objects[i].attribute_values
        declared == DeclaredAttributes(od.class_diagram, od.objects[i].class_name)
    IN values[Min({k \in DOMAIN values : values[k].name \notin declared})].name

\* the checks that an object diagram violates: those on its objects, and
\* those on its links, which come after all of them, when no object violates one
ObjectViolations(od) ==
    LET objs == od.objects
        known == RefClassNamesOf(od.class_diagram)
        named(n) == {j \in DOMAIN objs : objs[j].instance_name = n}
        on_objects ==
            {Violation(1, i, 1, "DuplicateInstanceName", objs[i].instance_name) :
                i \in {j \in DOMAIN objs : \E k \in 1..(j - 1) : k \in named(objs[j].instance_name)}}
            \cup {Violation(1, i, 2, "UnknownClass", objs[i].class_name) :
                    i \in {j \in DOMAIN objs : objs[j].class_name \notin known}}
            \cup {Violation(1, i, 3, "InvalidAttribute", FirstUndeclared(od, i)) :
                    i \in {j \in Undeclared(od) : objs[j].class_name \in known}}
        on_links ==
            {Violation(2, i, 1, "LinkObjectNotFound", od.links[i].object1_instance_name) :
                i \in {j \in DOMAIN od.links : named(od.links[j].object1_instance_name) = {}}}
            \cup {Violation(2, i, 2, "LinkObjectNotFound", od.links[i].object2_instance_name) :
                    i \in {j \in DOMAIN od.links : named(od.links[j].object2_instance_name) = {}}}
            \cup {Violation(2, i, 3, "InvalidLink", "none") :
                    i \in {j \in DOMAIN od.links :
                             LinkResolves(od, od.links[j]) /\ ~LinkBacked(od, od.links[j])}}
    IN IF on_objects # {} THEN on_objects ELSE on_links

\* the violated check that comes first
First(V) == CHOOSE v \in V : \A w \in V : v.rank <= w.rank

\* the outcome is the error of the first violated check, acceptance if there is none
ReportsFirst(result, V) ==
    IF result.status = "accepted" THEN V = {}
    ELSE /\ V # {}
         /\ LET first == First(V)
            IN /\ result.status = "rejected"
               /\ result.error = first.error
               /\ result.error # "CircularInheritance" => result.name = first.name

FirstIndex(f) == Min({i \in DOMAIN diagram.flows : diagram.flows[i] = f})

\* lines only grows at its end
AppendOnly ==
    Len(lines') >= Len(lines) /\ SubSeq(lines', 1, Len(lines)) = lines

IfLines(d) ==
    {"if (" \o (IF truthy(d.nodes[k].condition) THEN d.nodes[k].condition ELSE "condition")
            \o ") then (yes)" : k \in DOMAIN d.nodes}

ElseifLines(d) ==
    {"elseif (" \o (IF truthy(d.flows[k].condition) THEN d.flows[k].condition ELSE "no")
                \o ") then" : k \in DOMAIN d.flows}

\* the lines from position k on close the blocks of open, innermost last, in
\* order, and open and close only whole blocks of their own
RECURSIVE Nested(_, _, _)
Nested(ls, k, open) ==
    IF k > Len(ls) THEN open = <<>>
    ELSE LET l == ls[k]
             inner == IF open = <<>> THEN "none" ELSE open[Len(open)]
             outer == SubSeq(open, 1, Len(open) - 1)
         IN  IF l \in IfLines(diagram) THEN Nested(ls, k + 1, Append(open, "if"))
             ELSE IF l = "fork" THEN Nested(ls, k + 1, Append(open, "fork"))
             ELSE IF l = "endif" THEN inner = "if" /\ Nested(ls, k + 1, outer)
             ELSE IF l = "end fork" THEN inner = "fork" /\ Nested(ls, k + 1, outer)
             ELSE IF l \in ElseifLines(diagram) THEN inner = "if" /\ Nested(ls, k + 1, open)
             ELSE IF l = "fork again" THEN inner = "fork" /\ Nested(ls, k + 1, open)
             ELSE Nested(ls, k + 1, open)

\* C29: in the rendering of a diagram with unique node ids and resolvable
\* flows every if is closed by one later endif and every fork by one later
\* end fork, blocks nest without overlapping, every elseif lies directly in
\* an open if block and every fork again directly in an open fork block.
C29_BlocksNested ==
    (Returned /\ Resolvable(diagram)) => Nested(lines, 1, <<>>)

\* a fork block inside the first branch of an if block has been rendered
C29_Witness ==
    /\ Returned
    /\ diagram = Branch("decision", "action", "action", "fork", None, None)
    /\ Position(lines, "if (condition) then (yes)") < Position(lines, "fork")
    /\ Position(lines, "end fork") < Position(lines, "elseif (no) then")
    /\ Position(lines, "elseif (no) then") < Position(lines, "endif")

(***************************************************************************)
(* Properties of CRC model construction.                                   *)
(***************************************************************************)
CardNames(m) == {m.cards[i].class_name : i \in DOMAIN m.cards}

\* the names a card refers to: its superclass when given, its subclasses and
\* the collaborators of its responsibilities
Referenced(card) ==
    (IF card.superclass = None THEN {} ELSE {card.superclass})
    \cup Range(card.subclasses)
    \cup UNION {Range(card.responsibilities[r].collaborators) :
                   r \in DOMAIN card.responsibilities}

\* C9: a CRC model is accepted only if every superclass that is given, every
\* subclasses entry and every collaborator is the class_name of a card of the set.
C9_ReferencesResolve ==
    crc_result.status = "accepted" =>
        \A i \in DOMAIN crc_model.cards : Referenced(crc_model.cards[i]) \subseteq CardNames(crc_model)

\* C10: a CRC model in which two cards share a class_name is rejected.
C10_DuplicateCardRejected ==
    (/\ crc_result.status # "pending"
     /\ \E i, j \in DOMAIN crc_model.cards :
           i # j /\ crc_model.cards[i].class_name = crc_model.cards[j].class_name)
    => crc_result.status = "rejected"
====
